---- MODULE Spec2Model ----
(***************************************************************************)
(* State-machine model of the untis-calendar scripts: untis_to_ics.py      *)
(* (timetable -> ICS file), untis_common.py and untis_to_caldav.py.        *)
(*                                                                         *)
(* Representation.  A Python str is a sequence of one-character strings,   *)
(* so that substring tests and the two date regexes are computed on the    *)
(* characters.  A datetime.date is its proleptic Gregorian ordinal         *)
(* (date.toordinal()); a datetime is ordinal * 1440 + minute of the day.   *)
(***************************************************************************)
EXTENDS Integers, Sequences, FiniteSets, TLC

(* ------------------------------ str ----------------------------------- *)

UpperChars == <<"A","B","C","D","E","F","G","H","I","J","K","L","M","N","O","P","Q","R","S","T","U","V","W","X","Y","Z","Ü">>

LowerChars == <<"a","b","c","d","e","f","g","h","i","j","k","l","m","n","o","p","q","r","s","t","u","v","w","x","y","z","ü">>

Digits == <<"0","1","2","3","4","5","6","7","8","9">>

\* str.lower() on one character
LowerChar(c) ==
  IF \E k \in 1..Len(UpperChars) : UpperChars[k] = c
  THEN LowerChars[CHOOSE k \in 1..Len(UpperChars) : UpperChars[k] = c]
  ELSE c

\* str.lower()
Lower(s) == [k \in 1..Len(s) |-> LowerChar(s[k])]

IsDigit(c) == \E k \in 1..10 : Digits[k] = c

DigitVal(c) == (CHOOSE k \in 1..10 : Digits[k] = c) - 1

IsSpace(c) == c \in {" ", "\n", "\t"}

\* \w of the re module: letters, digits and the underscore
IsWordChar(c) ==
  \/ IsDigit(c)
  \/ c = "_"
  \/ \E k \in 1..Len(LowerChars) : LowerChars[k] = c \/ UpperChars[k] = c

\* `w in s` for two strings
Contains(s, w) ==
  \E k \in 1..(Len(s) - Len(w) + 1) : \A j \in 1..Len(w) : s[k + j - 1] = w[j]

\* str.strip()
Strip(s) ==
  LET keep == {k \in 1..Len(s) : ~IsSpace(s[k])} IN
  IF keep = {} THEN <<>>
  ELSE SubSeq(s, CHOOSE k \in keep : \A j \in keep : k <= j,
                 CHOOSE k \in keep : \A j \in keep : j <= k)

\* "\n".join(parts)
RECURSIVE JoinLines(_)
JoinLines(parts) ==
  IF parts = <<>> THEN <<>>
  ELSE IF Len(parts) = 1 THEN parts[1]
  ELSE parts[1] \o <<"\n">> \o JoinLines(Tail(parts))

\* int() of a string of decimal digits
RECURSIVE IntOf(_)
IntOf(ds) ==
  IF ds = <<>> THEN 0
  ELSE 10 * IntOf(SubSeq(ds, 1, Len(ds) - 1)) + DigitVal(ds[Len(ds)])

(* --------------------------- datetime.date ----------------------------- *)

\* the absent value where the code has None for a date
NoDate == 0

IsLeap(y) == y % 4 = 0 /\ (y % 100 # 0 \/ y % 400 = 0)

DaysInMonth(y, m) ==
  IF m = 2 THEN (IF IsLeap(y) THEN 29 ELSE 28)
  ELSE IF m \in {4, 6, 9, 11} THEN 30 ELSE 31

\* days before January 1st of year y
DaysBeforeYear(y) ==
  (y - 1) * 365 + ((y - 1) \div 4) - ((y - 1) \div 100) + ((y - 1) \div 400)

RECURSIVE DaysBeforeMonth(_, _)
DaysBeforeMonth(y, m) ==
  IF m = 1 THEN 0 ELSE DaysBeforeMonth(y, m - 1) + DaysInMonth(y, m - 1)

\* whether date(y, m, d) is constructed (otherwise it raises ValueError)
ValidDate(y, m, d) ==
  /\ 1 <= y /\ y <= 9999
  /\ 1 <= m /\ m <= 12
  /\ 1 <= d /\ d <= DaysInMonth(y, m)

\* date(y, m, d), with NoDate where the constructor raises
MkDate(y, m, d) ==
  IF ValidDate(y, m, d)
  THEN DaysBeforeYear(y) + DaysBeforeMonth(y, m) + d
  ELSE NoDate

\* date.year
YearOf(o) ==
  CHOOSE y \in (((o - 1) \div 366) + 1)..(((o - 1) \div 365) + 1) :
    DaysBeforeYear(y) < o /\ o <= DaysBeforeYear(y + 1)

\* date.weekday(): Monday is 0
Weekday(o) == (o + 6) % 7

(* ------------------ homework / exam detection (text) ------------------- *)

kw_heute == <<"h","e","u","t","e">>

kw_morgen == <<"m","o","r","g","e","n">>

kw_bis == <<"b","i","s"," ">>

EXAM_KEYWORDS ==
  << <<"p","r","ü","f","u","n","g">>,
     <<"k","l","a","u","s","u","r">>,
     <<"a","r","b","e","i","t">>,
     <<"t","e","s","t">>,
     <<"l","e","i","s","t","u","n","g","s","k","o","n","t","r","o","l","l","e">>,
     <<"e","x">>,
     <<"e","x","a","m">>,
     <<"k","a">>,
     <<"l","k">> >>

HOMEWORK_HINTS ==
  << <<"h","a","u","s","a","u","f","g","a","b","e">>,
     <<"h","a">>,
     <<"a","u","f","g","a","b","e">>,
     <<"v","o","k","a","b","e","l">>,
     <<"ü","b","u","n","g">>,
     <<"u","e","b","u","n","g">>,
     <<"a","r","b","e","i","t","s","b","l","a","t","t">>,
     <<"a","b","g","a","b","e">> >>

\* the names in the dict's insertion order; the name at position k has index k - 1
WEEKDAYS_DE ==
  << <<"m","o","n","t","a","g">>,
     <<"d","i","e","n","s","t","a","g">>,
     <<"m","i","t","t","w","o","c","h">>,
     <<"d","o","n","n","e","r","s","t","a","g">>,
     <<"f","r","e","i","t","a","g">>,
     <<"s","a","m","s","t","a","g">>,
     <<"s","o","n","n","t","a","g">> >>

(* ------------------------------ regexes -------------------------------- *)

\* \b before position k (k = Len(t) + 1: at the end of the string)
WordBoundary(t, k) ==
  LET before == k - 1 >= 1 /\ k - 1 <= Len(t) /\ IsWordChar(t[k - 1])
      after  == k >= 1 /\ k <= Len(t) /\ IsWordChar(t[k])
  IN  before # after

\* \d{n} at position a
DigitsAt(t, a, n) ==
  a + n - 1 <= Len(t) /\ \A k \in a..(a + n - 1) : IsDigit(t[k])

CharAt(t, k, c) == k <= Len(t) /\ t[k] = c

\* the lengths tried for the two \d{1,2} groups, longest first (greedy)
GreedyOrder == << <<2, 2>>, <<2, 1>>, <<1, 2>>, <<1, 1>> >>

\* \b(\d{1,2})\.(\d{1,2})\.(\d{4})\b matched at position i with group lengths n1, n2
MatchDDMMYYYY(t, i, n1, n2) ==
  /\ WordBoundary(t, i)
  /\ DigitsAt(t, i, n1)
  /\ CharAt(t, i + n1, ".")
  /\ DigitsAt(t, i + n1 + 1, n2)
  /\ CharAt(t, i + n1 + n2 + 1, ".")
  /\ DigitsAt(t, i + n1 + n2 + 2, 4)
  /\ WordBoundary(t, i + n1 + n2 + 6)

\* \b(\d{1,2})\.(\d{1,2})\b matched at position i with group lengths n1, n2
MatchDDMM(t, i, n1, n2) ==
  /\ WordBoundary(t, i)
  /\ DigitsAt(t, i, n1)
  /\ CharAt(t, i + n1, ".")
  /\ DigitsAt(t, i + n1 + 1, n2)
  /\ WordBoundary(t, i + n1 + n2 + 1)

\* the leftmost match, and at that position the first in greedy order
FirstHit(hits) ==
  CHOOSE h \in hits :
    \A g \in hits : h[1] < g[1] \/ (h[1] = g[1] /\ h[2] <= g[2])

\* DATE_DDMMYYYY.search(t): <<>> for no match, else map(int, m.groups())
DATE_DDMMYYYY(t) ==
  LET hits == {h \in (1..Len(t)) \X (1..4) :
                 MatchDDMMYYYY(t, h[1], GreedyOrder[h[2]][1], GreedyOrder[h[2]][2])}
  IN  IF hits = {} THEN <<>>
      ELSE LET h  == FirstHit(hits)
               i  == h[1]
               n1 == GreedyOrder[h[2]][1]
               n2 == GreedyOrder[h[2]][2]
           IN  << IntOf(SubSeq(t, i, i + n1 - 1)),
                  IntOf(SubSeq(t, i + n1 + 1, i + n1 + n2)),
                  IntOf(SubSeq(t, i + n1 + n2 + 2, i + n1 + n2 + 5)) >>

\* DATE_DDMM.search(t): <<>> for no match, else map(int, m.groups())
DATE_DDMM(t) ==
  LET hits == {h \in (1..Len(t)) \X (1..4) :
                 MatchDDMM(t, h[1], GreedyOrder[h[2]][1], GreedyOrder[h[2]][2])}
  IN  IF hits = {} THEN <<>>
      ELSE LET h  == FirstHit(hits)
               i  == h[1]
               n1 == GreedyOrder[h[2]][1]
               n2 == GreedyOrder[h[2]][2]
           IN  << IntOf(SubSeq(t, i, i + n1 - 1)),
                  IntOf(SubSeq(t, i + n1 + 1, i + n1 + n2)) >>

(* --------------------------- parse_due_date ---------------------------- *)

\* the weekday names contained in t, as positions in WEEKDAYS_DE
NamedWeekdays(t) == {k \in 1..Len(WEEKDAYS_DE) : Contains(t, WEEKDAYS_DE[k])}

\* WeekdayDelta without line 86: the same weekday resolves to base_day itself
WeekdayDelta_SameDay(idx, base_day) == (idx - Weekday(base_day)) % 7

\* the days from base_day to the weekday with index idx (lines 85-86)
WeekdayDelta(idx, base_day) ==
  LET d == (idx - Weekday(base_day)) % 7 IN IF d = 0 THEN 7 ELSE d

\* the day.month.year branch (lines 88-92): NoDate where date() raises
DateOfDDMMYYYY(m) ==
  IF m = <<>> THEN NoDate ELSE MkDate(m[3], m[2], m[1])

\* DateOfDDMM without line 98: a date before base_day is not rolled forward
DateOfDDMM_NoRoll(m, base_day) ==
  IF m = <<>> THEN NoDate ELSE MkDate(YearOf(base_day), m[2], m[1])

\* the day.month branch (lines 93-100): NoDate where either date() raises
DateOfDDMM(m, base_day) ==
  IF m = <<>> THEN NoDate
  ELSE LET cand == MkDate(YearOf(base_day), m[2], m[1]) IN
       IF cand = NoDate THEN NoDate
       ELSE IF cand < base_day THEN MkDate(YearOf(base_day) + 1, m[2], m[1])
       ELSE cand

parse_due_date(text, base_day) ==
  IF text = <<>> THEN NoDate
  ELSE LET t     == Lower(text)
           named == NamedWeekdays(t)
           full  == DateOfDDMMYYYY(DATE_DDMMYYYY(t))
       IN
    IF Contains(t, kw_heute) THEN base_day
    ELSE IF Contains(t, kw_morgen) THEN base_day + 1
    ELSE IF named # {}
      THEN LET k == CHOOSE k \in named : \A j \in named : k <= j
           IN  base_day + WeekdayDelta(k - 1, base_day)
    ELSE IF full # NoDate THEN full
    ELSE DateOfDDMM(DATE_DDMM(t), base_day)

contains_homework(text) ==
  IF text = <<>> THEN FALSE
  ELSE LET low == Lower(text) IN
       \/ \E k \in 1..Len(HOMEWORK_HINTS) : Contains(low, HOMEWORK_HINTS[k])
       \/ Contains(low, kw_bis)

detect_exam(text) ==
  IF text = <<>> THEN FALSE
  ELSE LET low == Lower(text) IN
       \E k \in 1..Len(EXAM_KEYWORDS) : Contains(low, EXAM_KEYWORDS[k])

(* ------------------------------ pick_scope ----------------------------- *)

\* An environment variable is <<>> when unset (os.getenv gives None) and <<s>>
\* when set to the string s.  `if sid:` holds for a set, non-empty string.
IsSet(v) == v # <<>> /\ v[1] # <<>>

\* An attribute of the object get_current_user returns is <<>> when the object
\* has no such attribute, <<0>> when it is None or 0, and <<n>> otherwise.
Truthy(a) == a # <<>> /\ a[1] # 0

\* What pick_scope returns, a dict as the list of its items, or that it raised
Returned(items) == [raised |-> FALSE, scope |-> items]

RuntimeError == [raised |-> TRUE, scope |-> <<>>]

\* lines 31-36 of untis_to_ics.py, and the same lines of the two other files:
\* the scope of the first explicit identifier that is set, <<>> when none is
ExplicitScope(env) ==
  IF IsSet(env.sid) THEN << <<"studentId", IntOf(env.sid[1])>> >>
  ELSE IF IsSet(env.tid) THEN << <<"teacherId", IntOf(env.tid[1])>> >>
  ELSE IF IsSet(env.cid) THEN << <<"classId", IntOf(env.cid[1])>> >>
  ELSE <<>>

PersonScope(me) ==
  << <<"personType", me.personType[1]>>, <<"personId", me.personId[1]>> >>

\* untis_to_ics.pick_scope: the explicit identifiers first, then the lookup;
\* getattr(me, name, None) makes a missing attribute a None
ics_pick_scope(env, me) ==
  IF ExplicitScope(env) # <<>> THEN Returned(ExplicitScope(env))
  ELSE IF me.kind = "user" /\ Truthy(me.personType) /\ Truthy(me.personId)
    THEN Returned(PersonScope(me))
  ELSE RuntimeError

\* the lookup of untis_common.pick_scope and untis_to_caldav.pick_scope
\* (lines 32-37): <<>> when it raised (me.personId of an object without that
\* attribute raises inside the try) or found nothing
LookupScope(me) ==
  IF /\ me.kind = "user"
     /\ me.personType # <<>>
     /\ Truthy(me.personType)
     /\ Truthy(me.personId)
  THEN PersonScope(me)
  ELSE <<>>

\* untis_common.pick_scope: the lookup first, then the explicit identifiers
common_pick_scope(env, me) ==
  IF LookupScope(me) # <<>> THEN Returned(LookupScope(me))
  ELSE IF ExplicitScope(env) # <<>> THEN Returned(ExplicitScope(env))
  ELSE RuntimeError

\* untis_to_caldav.pick_scope: the lookup first, then the explicit identifiers
caldav_pick_scope(env, me) ==
  IF LookupScope(me) # <<>> THEN Returned(LookupScope(me))
  ELSE IF ExplicitScope(env) # <<>> THEN Returned(ExplicitScope(env))
  ELSE RuntimeError

(* -------------------------- merge_into_blocks -------------------------- *)

\* x put into the list s, which is sorted by begin, behind every element whose
\* begin is not later: sorted() is stable
RECURSIVE InsertByBegin(_, _)
InsertByBegin(s, x) ==
  IF s = <<>> THEN <<x>>
  ELSE IF s[Len(s)][1] <= x[1] THEN Append(s, x)
  ELSE Append(InsertByBegin(SubSeq(s, 1, Len(s) - 1), x), s[Len(s)])

\* sorted(intervals, key=lambda x: x[0])
RECURSIVE SortedByBegin(_)
SortedByBegin(intervals) ==
  IF intervals = <<>> THEN <<>>
  ELSE InsertByBegin(SortedByBegin(SubSeq(intervals, 1, Len(intervals) - 1)),
                     intervals[Len(intervals)])

\* MergeStep with < for <=: a gap equal to the threshold separates
MergeStep_Exclusive(merged, iv, max_gap) ==
  LET last == merged[Len(merged)] IN
  IF iv[1] - last[2] < max_gap
  THEN (IF iv[2] > last[2]
        THEN [merged EXCEPT ![Len(merged)] = <<last[1], iv[2]>>]
        ELSE merged)
  ELSE Append(merged, iv)

\* MergeStep without the test of line 197: the end of the block is the end of
\* the interval merged last
MergeStep_LastEnd(merged, iv, max_gap) ==
  LET last == merged[Len(merged)] IN
  IF iv[1] - last[2] <= max_gap
  THEN [merged EXCEPT ![Len(merged)] = <<last[1], iv[2]>>]
  ELSE Append(merged, iv)

\* one turn of the loop (lines 194-199): the interval iv = (b, e) against the
\* last block
MergeStep(merged, iv, max_gap) ==
  LET last == merged[Len(merged)] IN
  IF iv[1] - last[2] <= max_gap
  THEN (IF iv[2] > last[2]
        THEN [merged EXCEPT ![Len(merged)] = <<last[1], iv[2]>>]
        ELSE merged)
  ELSE Append(merged, iv)

RECURSIVE MergeLoop(_, _, _)
MergeLoop(merged, rest, max_gap) ==
  IF rest = <<>> THEN merged
  ELSE MergeLoop(MergeStep(merged, rest[1], max_gap), Tail(rest), max_gap)

\* merge_into_blocks comparing an interval with the interval before it in the
\* sorted list, not with the block built so far
RECURSIVE MergeLoop_PrevInterval(_, _, _, _)
MergeLoop_PrevInterval(merged, prev, rest, max_gap) ==
  IF rest = <<>> THEN merged
  ELSE LET last == merged[Len(merged)]
           iv   == rest[1]
           nxt  == IF iv[1] - prev[2] <= max_gap
                   THEN (IF iv[2] > last[2]
                         THEN [merged EXCEPT ![Len(merged)] = <<last[1], iv[2]>>]
                         ELSE merged)
                   ELSE Append(merged, iv)
       IN  MergeLoop_PrevInterval(nxt, iv, Tail(rest), max_gap)

merge_into_blocks_PrevInterval(intervals, max_gap_min) ==
  IF intervals = <<>> THEN <<>>
  ELSE LET s == SortedByBegin(intervals) IN
       MergeLoop_PrevInterval(<<s[1]>>, s[1], Tail(s), max_gap_min)

\* merge_into_blocks(intervals, max_gap_min); the instants are in minutes
merge_into_blocks(intervals, max_gap_min) ==
  IF intervals = <<>> THEN <<>>
  ELSE LET s == SortedByBegin(intervals) IN
       MergeLoop(<<s[1]>>, Tail(s), max_gap_min)

(* ------------------- untis_to_ics.py: lessons and subjects ------------- *)

\* A lesson is a record: start and end are naive datetimes (NoTime for None),
\* code is <<>> (None) or <<s>>, is_cancelled a boolean, the five text fields
\* substText, info, txt, lsnote, notice are <<>> (absent) or <<s>>, su is the
\* list of subject ids of the raw record, and subject is <<>> (no attribute) or
\* <<[long_name, name]>>, each of the two <<>> or <<s>>.

\* the absent value where the code has None for a datetime
NoTime == 0

\* datetime.date() of a datetime
DateOfTime(dt) == dt \div 1440

\* datetime.combine(day, time) for a time given in minutes after midnight
Combine(day, minutes) == day * 1440 + minutes

\* session.subjects(): the subjects the school has
Subjects ==
  << [id |-> 1, long_name |-> << <<"M","a","t","h","e">> >>, name |-> << <<"M">> >>],
     [id |-> 2, long_name |-> <<>>, name |-> << <<"D","e">> >>] >>

\* getattr(s, "long_name", None) or getattr(s, "name", None): <<>> or <<s>>
NameOf(s) ==
  IF s.long_name # <<>> /\ s.long_name[1] # <<>> THEN s.long_name
  ELSE IF s.name # <<>> /\ s.name[1] # <<>> THEN s.name
  ELSE <<>>

\* the text of a field if it is a string with something but blanks in it
RECURSIVE StrippedParts(_)
StrippedParts(fields) ==
  IF fields = <<>> THEN <<>>
  ELSE (IF fields[1] # <<>> /\ Strip(fields[1][1]) # <<>>
        THEN <<Strip(fields[1][1])>> ELSE <<>>)
       \o StrippedParts(Tail(fields))

extract_info_text(lesson) ==
  JoinLines(StrippedParts(<<lesson.substText, lesson.info,
                            lesson.txt, lesson.lsnote, lesson.notice>>))

\* the names of the subjects with the ids of the list (lines 118-126): an id
\* that is 0 or that no subject has is passed over
RECURSIVE NamesOfIds(_)
NamesOfIds(ids) ==
  IF ids = <<>> THEN <<>>
  ELSE LET found == {k \in 1..Len(Subjects) : Subjects[k].id = ids[1]} IN
       (IF ids[1] # 0 /\ found # {}
        THEN NameOf(Subjects[CHOOSE k \in found : \A j \in found : k <= j])
        ELSE <<>>)
       \o NamesOfIds(Tail(ids))

get_subject_names(lesson) ==
  LET names == NamesOfIds(lesson.su) IN
  IF names # <<>> THEN names
  ELSE IF lesson.subject # <<>> THEN NameOf(lesson.subject[1])
  ELSE <<>>

\* the days of the lessons of the subject that are after base_day and at most
\* 21 days after it (lines 139-147)
SubjectDays(subject, lessons, base_day) ==
  {DateOfTime(lessons[k].start) : k \in
     {j \in 1..Len(lessons) :
        /\ lessons[j].start # NoTime
        /\ base_day < DateOfTime(lessons[j].start)
        /\ DateOfTime(lessons[j].start) <= base_day + 21
        /\ LET names == get_subject_names(lessons[j]) IN
           \E n \in 1..Len(names) : Lower(subject) = Lower(names[n])}}

next_subject_day(subject, lessons, base_day) ==
  LET days == SubjectDays(subject, lessons, base_day) IN
  IF days = {} THEN base_day + 1
  ELSE CHOOSE d \in days : \A e \in days : d <= e

kw_cancelled == <<"c","a","n","c","e","l","l","e","d">>

kw_canc == <<"c","a","n","c">>

kw_absent == <<"a","b","s","e","n","t">>

\* IsCancel without the test: a cancelled lesson is taken as taught
IsCancel_Never(l) == FALSE

\* lines 230-231
IsCancel(l) ==
  \/ l.is_cancelled
  \/ (IF l.code = <<>> THEN <<>> ELSE Lower(l.code[1]))
       \in {kw_cancelled, kw_canc, kw_absent}

(* ----------------------- untis_to_ics.py: events ----------------------- *)

\* max_gap_min of the call in main
MERGE_GAP_MIN == 20

\* HW_TIME = time(17, 0), in minutes after midnight
HW_TIME == 1020

\* timedelta(minutes=30)
HW_MINUTES == 30

\* time(8, 0), in minutes after midnight
EXAM_TIME == 480

\* timedelta(hours=2), in minutes
EXAM_MINUTES == 120

kw_Fach == <<"F","a","c","h">>

\* hash(txt) of the built-in str: a value that is a function of the text and of
\* the seed the interpreter drew when the process started; equal texts under
\* one seed have equal hashes
PyHash(seed, txt) == <<seed, txt>>

\* f"{b_utc}-{e_utc}@untis-merged"
BlockUid(b, e) ==
  [tag |-> "untis-merged", from |-> b, to |-> e, subject |-> <<>>, hash |-> <<>>]

\* f"HW|{due.isoformat()}|{subj}|{abs(hash(txt))}"
HomeworkUid(due, subj, txt, seed) ==
  [tag |-> "HW", from |-> due, to |-> due, subject |-> subj,
   hash |-> PyHash(seed, txt)]

\* f"EXAM|{due.isoformat()}|{subject}"
ExamUid(due, subject) ==
  [tag |-> "EXAM", from |-> due, to |-> due, subject |-> subject, hash |-> <<>>]

\* lines 240-247
BlockEvent(b, e) ==
  [uid |-> BlockUid(b, e), name |-> "Schule", subject |-> <<>>,
   begin |-> b, end |-> e, description |-> <<>>]

\* lines 297-304 and 324-331
HomeworkEvent(due, subj, txt, seed) ==
  [uid |-> HomeworkUid(due, subj, txt, seed), name |-> "Hausaufgabe",
   subject |-> subj, begin |-> Combine(due, HW_TIME),
   end |-> Combine(due, HW_TIME) + HW_MINUTES, description |-> txt]

\* lines 340-347
ExamEvent(due, subject, info) ==
  [uid |-> ExamUid(due, subject), name |-> "Pruefung", subject |-> subject,
   begin |-> Combine(due, EXAM_TIME),
   end |-> Combine(due, EXAM_TIME) + EXAM_MINUTES, description |-> info]

\* cal.events.add(ev).  cal.events is a set of the ics package, and whether an
\* Event that equals one of the set is dropped is decided by Event.__eq__ and
\* Event.__hash__ of the installed ics: by the uid, or by the object.  The
\* calendar is the list of the events the set holds, in the order of adding.
CalAdd(cal, ev, event_eq) ==
  IF event_eq = "uid" /\ \E k \in 1..Len(cal) : cal[k].uid = ev.uid
  THEN cal
  ELSE Append(cal, ev)

(* ------------------- untis_to_ics.main, steps 1 and 2 ------------------ *)

\* by_day.setdefault(day, []).append(iv)
SetDefaultAppend(by_day, day, iv) ==
  IF day \in DOMAIN by_day
  THEN [by_day EXCEPT ![day] = Append(@, iv)]
  ELSE [d \in DOMAIN by_day \cup {day} |->
          IF d = day THEN <<iv>> ELSE by_day[d]]

\* one turn of the loop of lines 224-234
CollectLesson(by_day, l) ==
  IF l.start = NoTime \/ l.end = NoTime THEN by_day
  ELSE IF IsCancel(l) THEN by_day
  ELSE SetDefaultAppend(by_day, DateOfTime(l.start), <<l.start, l.end>>)

RECURSIVE CollectLoop(_, _)
CollectLoop(by_day, rest) ==
  IF rest = <<>> THEN by_day
  ELSE CollectLoop(CollectLesson(by_day, rest[1]), Tail(rest))

\* the elements of a set of integers in ascending order
RECURSIVE Ascending(_)
Ascending(S) ==
  IF S = {} THEN <<>>
  ELSE LET least == CHOOSE x \in S : \A y \in S : x <= y IN
       <<least>> \o Ascending(S \ {least})

\* lines 239-250 for the blocks of one day; st is [cal, seen_uids]
RECURSIVE AddBlocks(_, _, _)
AddBlocks(st, blocks, event_eq) ==
  IF blocks = <<>> THEN st
  ELSE LET ev == BlockEvent(blocks[1][1], blocks[1][2]) IN
       AddBlocks(IF ev.uid \in st.seen_uids THEN st
                 ELSE [cal |-> CalAdd(st.cal, ev, event_eq),
                       seen_uids |-> st.seen_uids \cup {ev.uid}],
                 Tail(blocks), event_eq)

\* lines 237-250
RECURSIVE BlocksLoop(_, _, _, _)
BlocksLoop(st, by_day, days, event_eq) ==
  IF days = <<>> THEN st
  ELSE BlocksLoop(AddBlocks(st, merge_into_blocks(by_day[days[1]], MERGE_GAP_MIN),
                            event_eq),
                  by_day, Tail(days), event_eq)

(* --------------------- untis_to_ics.main, step 3a ---------------------- *)

\* An entry of the homework module is a record: text and description are
\* <<>> (no such key) or <<s>>; due, dueDate and date are <<>>, or
\* <<[type |-> "date", date |-> d, str |-> <<>>]>> for a date object, or
\* <<[type |-> "str", date |-> NoDate, str |-> s]>> for a string; subjectIds
\* is <<>> or <<list of ids>>, subjectId <<>> or <<id>>, subject <<>> or <<s>>.

\* subjects_lookup(session).get(id): <<>> or <<name>> (lines 177-186)
SubjMapGet(id) ==
  LET found == {k \in 1..Len(Subjects) :
                  Subjects[k].id # 0 /\ Subjects[k].id = id} IN
  IF found = {} THEN <<>>
  ELSE NameOf(Subjects[CHOOSE k \in found : \A j \in found : j <= k])

\* datetime.fromisoformat(v).date() for a string YYYY-MM-DD; NoDate where it
\* raises (every other string is taken to raise)
FromIsoFormat(v) ==
  IF /\ Len(v) = 10
     /\ DigitsAt(v, 1, 4) /\ v[5] = "-"
     /\ DigitsAt(v, 6, 2) /\ v[8] = "-"
     /\ DigitsAt(v, 9, 2)
  THEN MkDate(IntOf(SubSeq(v, 1, 4)), IntOf(SubSeq(v, 6, 7)),
              IntOf(SubSeq(v, 9, 10)))
  ELSE NoDate

\* lines 269-278: the date of a string, NoDate where nothing is assigned
DueOfString(v) ==
  IF Contains(v, <<"-">>) THEN FromIsoFormat(v)
  ELSE DateOfDDMMYYYY(DATE_DDMMYYYY(v))

\* the loop of lines 262-278 over the values of due, dueDate, date
RECURSIVE DueLoop(_, _)
DueLoop(due, values) ==
  IF values = <<>> THEN due
  ELSE IF values[1] = <<>> THEN DueLoop(due, Tail(values))
  ELSE IF values[1][1].type = "date" THEN values[1][1].date
  ELSE LET parsed == DueOfString(values[1][1].str) IN
       DueLoop(IF parsed # NoDate THEN parsed ELSE due, Tail(values))

\* lines 280-290
HwSubject(hw) ==
  LET s1 == IF hw.subjectIds # <<>> /\ hw.subjectIds[1] # <<>>
            THEN SubjMapGet(hw.subjectIds[1][1]) ELSE <<>>
      byId == IF hw.subjectId # <<>> THEN SubjMapGet(hw.subjectId[1]) ELSE <<>>
      s2 == IF byId # <<>> THEN byId ELSE s1
      s3 == IF hw.subject # <<>> /\ s2 = <<>> THEN hw.subject ELSE s2
  IN  IF s3 = <<>> \/ s3[1] = <<>> THEN kw_Fach ELSE s3[1]

\* line 257
HwText(hw) ==
  Strip(IF hw.text # <<>> /\ hw.text[1] # <<>> THEN hw.text[1]
        ELSE IF hw.description # <<>> /\ hw.description[1] # <<>>
          THEN hw.description[1]
        ELSE <<>>)

\* one turn of the loop of lines 255-305
ModuleEntry(cal, hw, lessons, start, seed, event_eq) ==
  LET txt == HwText(hw) IN
  IF txt = <<>> THEN cal
  ELSE LET subj   == HwSubject(hw)
           parsed == DueLoop(NoDate, <<hw.due, hw.dueDate, hw.date>>)
           due    == IF parsed = NoDate
                     THEN next_subject_day(subj, lessons, start)
                     ELSE parsed
       IN  CalAdd(cal, HomeworkEvent(due, subj, txt, seed), event_eq)

RECURSIVE ModuleLoop(_, _, _, _, _, _)
ModuleLoop(cal, rest, lessons, start, seed, event_eq) ==
  IF rest = <<>> THEN cal
  ELSE ModuleLoop(ModuleEntry(cal, rest[1], lessons, start, seed, event_eq),
                  Tail(rest), lessons, start, seed, event_eq)

(* ------------------ the lessons fetch_timetable returns ---------------- *)

\* the most lessons of a timetable
MaxLessons == 3

\* the day of the run: Monday, the 8th of January 2024
StartDay == MkDate(2024, 1, 8)

NoLesson ==
  [start |-> NoTime, end |-> NoTime, code |-> <<>>, is_cancelled |-> FALSE,
   substText |-> <<>>, info |-> <<>>, txt |-> <<>>, lsnote |-> <<>>,
   notice |-> <<>>, su |-> <<>>, subject |-> <<>>]

\* a lesson of the day that is `day` days after the run, from..to in minutes
\* after midnight
LessonAt(day, from, to, su) ==
  [NoLesson EXCEPT !.start = Combine(StartDay + day, from),
                   !.end = Combine(StartDay + day, to),
                   !.su = su]

note_ha_freitag == <<"H","A"," ","b","i","s"," ","F","r","e","i","t","a","g">>

note_ha == <<" ","H","A"," ">>

note_test == <<"T","e","s","t">>

note_lesen == <<"L","e","s","e","n">>

note_test_heute == <<"T","e","s","t"," ","h","e","u","t","e">>

\* the lessons a timetable is made of: Monday 8:00, 9:00, 9:45 (cancelled by
\* the flag, or by the code), 10:30, 11:35, Tuesday 9:00, and a record without
\* times
LessonPool ==
  { [LessonAt(0, 480, 525, <<>>) EXCEPT !.notice = <<note_test_heute>>],
    [LessonAt(0, 540, 585, <<1>>) EXCEPT !.substText = <<note_ha_freitag>>],
    [LessonAt(0, 585, 630, <<1>>) EXCEPT !.is_cancelled = TRUE],
    [LessonAt(0, 585, 630, <<2>>) EXCEPT !.code = << <<"C","A","N","C","E","L","L","E","D">> >>,
                                         !.info = <<note_ha>>],
    [LessonAt(0, 630, 675, <<2>>) EXCEPT !.info = <<note_ha>>],
    [LessonAt(0, 695, 740, <<>>) EXCEPT !.lsnote = <<note_test>>,
                                        !.code = << <<"i","r","r","e","g","u","l","a","r">> >>],
    [LessonAt(1, 540, 585, <<1>>) EXCEPT !.substText = <<note_ha_freitag>>],
    [NoLesson EXCEPT !.su = <<1>>, !.substText = <<note_ha_freitag>>] }

(* --------------------- untis_to_ics.main, step 3b ---------------------- *)

\* line 316
SubjectOf(l) ==
  LET subjects == get_subject_names(l) IN
  IF subjects = <<>> THEN kw_Fach ELSE subjects[1]

\* What the body of the loop computes from the lesson alone (lines 313-316,
\* and the calls of lines 319, 320, 335 and 336 on info and base_day).
NoteOf(l) ==
  LET base_day == DateOfTime(l.start)
      info     == Strip(extract_info_text(l))
  IN  [base_day |-> base_day,
       info     |-> info,
       subject  |-> SubjectOf(l),
       homework |-> contains_homework(info),
       exam     |-> detect_exam(info),
       parsed   |-> parse_due_date(info, base_day)]

\* NoteOf of the lessons of the timetable, computed once
Notes == [l \in LessonPool |-> NoteOf(l)]

\* line 320: the due date of the homework of a note
HomeworkDue(note, lessons) ==
  IF note.parsed # NoDate THEN note.parsed
  ELSE next_subject_day(note.subject, lessons, note.base_day)

\* line 336: the due date of the exam of a note
ExamDue(note) ==
  IF note.parsed # NoDate THEN note.parsed ELSE note.base_day

\* lines 319-332; st is [cal, created_hw, created_exam]
NoteHomework(st, note, lessons, seed, event_eq) ==
  IF ~note.homework THEN st
  ELSE LET due == HomeworkDue(note, lessons)
           key == <<due, note.subject, note.info>>
       IN  IF key \in st.created_hw THEN st
           ELSE [st EXCEPT
                   !.created_hw = @ \cup {key},
                   !.cal = CalAdd(@, HomeworkEvent(due, note.subject, note.info,
                                                   seed),
                                  event_eq)]

\* NoteExam without the test of the key: an exam event per note
NoteExam_NoKey(st, note, event_eq) ==
  IF ~note.exam THEN st
  ELSE [st EXCEPT
          !.created_exam = @ \cup {<<ExamDue(note), note.subject>>},
          !.cal = CalAdd(@, ExamEvent(ExamDue(note), note.subject, note.info),
                         event_eq)]

\* lines 335-348
NoteExam(st, note, event_eq) ==
  IF ~note.exam THEN st
  ELSE LET due == ExamDue(note)
           key == <<due, note.subject>>
       IN  IF key \in st.created_exam THEN st
           ELSE [st EXCEPT
                   !.created_exam = @ \cup {key},
                   !.cal = CalAdd(@, ExamEvent(due, note.subject, note.info),
                                  event_eq)]

\* one turn of the loop of lines 309-348
ScanLesson(st, l, lessons, seed, event_eq) ==
  IF l.start = NoTime THEN st
  ELSE NoteExam(NoteHomework(st, Notes[l], lessons, seed, event_eq),
                Notes[l], event_eq)

RECURSIVE ScanLoop(_, _, _, _, _)
ScanLoop(st, rest, lessons, seed, event_eq) ==
  IF rest = <<>> THEN st
  ELSE ScanLoop(ScanLesson(st, rest[1], lessons, seed, event_eq),
                Tail(rest), lessons, seed, event_eq)

(* ------------------------------ state ---------------------------------- *)

VARIABLES
  args,         \* the arguments of a call of one of the pure functions
  ret,          \* <<>> before the call returns, then what it returned
  start,        \* main: the day of the run, datetime.now(tz).date()
  lessons,      \* main: what fetch_timetable returned
  hw_entries,   \* main: what fetch_homeworks returned
  hashseed,     \* the seed of the str hash of the running interpreter
  event_eq,     \* how the installed ics compares the events of a set
  pc,           \* main: the step that comes next
  by_day,       \* main: the intervals of the taught lessons of each day
  seen_uids,    \* main: the uids of the block events
  cal,          \* main: the events of the Calendar
  created_hw,   \* main: the keys of the homework events made from notes
  created_exam, \* main: the keys of the exam events made from notes
  out_file,     \* the file at ICS_OUTPUT_PATH
  run,          \* how many times the script has been started
  prev_uids     \* the uids the run before wrote

callVars == <<args, ret>>

mainVars ==
  <<start, lessons, hw_entries, hashseed, event_eq, pc, by_day, seen_uids,
    cal, created_hw, created_exam, out_file, run, prev_uids>>

vars == <<callVars, mainVars>>

\* no function is being called
CallIdle == args = <<>> /\ ret = <<>>

EmptyDict == [d \in {} |-> <<>>]

\* The file at ICS_OUTPUT_PATH: the run that wrote it last (0: a publication
\* before the first run) and whether all its lines were written.
OldFile == [written_by |-> 0, complete |-> TRUE]

\* main is not running
MainIdle ==
  /\ start = NoDate
  /\ lessons = <<>>
  /\ hw_entries = <<>>
  /\ hashseed = 0
  /\ event_eq = "uid"
  /\ pc = "off"
  /\ by_day = EmptyDict
  /\ seen_uids = {}
  /\ cal = <<>>
  /\ created_hw = {}
  /\ created_exam = {}
  /\ out_file = OldFile
  /\ run = 0
  /\ prev_uids = {}

(* ------------------- inputs of the pure functions ---------------------- *)

\* the most words in a note text
MaxWords == 2

\* the words note texts are made of
Vocabulary ==
  { <<"h","e","u","t","e">>,
    <<"M","o","r","g","e","n">>,
    <<"M","o","n","t","a","g">>,
    <<"M","i","t","t","w","o","c","h">>,
    <<"3",".","1",".">>,
    <<"2","9",".","2",".">>,
    <<"2","0",".","1","2",".">>,
    <<"3","1",".","4",".">>,
    <<"2","9",".","0","2",".","2","0","2","3">>,
    <<"1","5",".","0","3",".","2","0","2","4">>,
    <<"H","A">>,
    <<"T","e","s","t">> }

\* the texts of exactly n words, separated by one space
RECURSIVE TextsOfLen(_)
TextsOfLen(n) ==
  IF n = 0 THEN {<<>>}
  ELSE IF n = 1 THEN Vocabulary
  ELSE {w \o <<" ">> \o t : w \in Vocabulary, t \in TextsOfLen(n - 1)}

Texts == UNION {TextsOfLen(n) : n \in 0..MaxWords}

\* the days a note can be attached to: a week before the turn of a year, the
\* days around the 29th of February of a leap year, and days of the years after
BaseDays ==
  {MkDate(2023, 12, 20) + k : k \in 0..6}
    \cup {MkDate(2024, 1, 3), MkDate(2024, 2, 28), MkDate(2024, 2, 29),
          MkDate(2024, 3, 1), MkDate(2024, 12, 31), MkDate(2025, 3, 3)}

(* ---------------- parse_due_date as a called function ------------------ *)

InitParse ==
  /\ args \in [text : Texts, base_day : BaseDays]
  /\ ret = <<>>
  /\ MainIdle

CallParseDueDate ==
  /\ ret = <<>>
  /\ ret' = <<parse_due_date(args.text, args.base_day)>>
  /\ UNCHANGED <<args, mainVars>>

NextParse == CallParseDueDate

SpecParse == InitParse /\ [][NextParse]_vars

(* --------------- merge_into_blocks as a called function ---------------- *)

\* the most intervals in a list
MaxIntervals == 3

\* the instants of the intervals are 0..MaxTime
MaxTime == 3

\* the largest threshold
MaxGap == 2

Intervals == {iv \in (0..MaxTime) \X (0..MaxTime) : iv[1] < iv[2]}

IntervalLists == UNION {[1..n -> Intervals] : n \in 0..MaxIntervals}

Gaps == (0 - 2)..MaxGap

InitMerge ==
  /\ args \in [intervals : IntervalLists, max_gap_min : Gaps]
  /\ ret = <<>>
  /\ MainIdle

CallMerge ==
  /\ ret = <<>>
  /\ ret' = <<merge_into_blocks(args.intervals, args.max_gap_min)>>
  /\ UNCHANGED <<args, mainVars>>

\* the blocks of the first call merged again with the same threshold
CallMergeAgain ==
  /\ Len(ret) = 1
  /\ ret' = <<ret[1], merge_into_blocks(ret[1], args.max_gap_min)>>
  /\ UNCHANGED <<args, mainVars>>

NextMerge == CallMerge \/ CallMergeAgain

SpecMerge == InitMerge /\ [][NextMerge]_vars

(* -------------------- pick_scope as a called function ------------------ *)

\* UNTIS_STUDENT_ID / UNTIS_TEACHER_ID / UNTIS_CLASS_ID: unset, empty, a number
EnvValues == { <<>>, << <<>> >>, << <<"7">> >>, << <<"1","2">> >> }

AttrValues == { <<>>, <<0>>, <<2>>, <<5>> }

\* get_current_user(): raises, returns None, or returns an object
Users ==
  {[kind |-> k, personType |-> <<>>, personId |-> <<>>] : k \in {"raises", "none"}}
    \cup [kind : {"user"}, personType : AttrValues, personId : AttrValues]

NotCalled == [ics |-> <<>>, common |-> <<>>, caldav |-> <<>>]

InitScope ==
  /\ args \in [env : [sid : EnvValues, tid : EnvValues, cid : EnvValues],
               me : Users]
  /\ ret = NotCalled
  /\ MainIdle

CallIcsPickScope ==
  /\ ret.ics = <<>>
  /\ ret' = [ret EXCEPT !.ics = <<ics_pick_scope(args.env, args.me)>>]
  /\ UNCHANGED <<args, mainVars>>

CallCommonPickScope ==
  /\ ret.common = <<>>
  /\ ret' = [ret EXCEPT !.common = <<common_pick_scope(args.env, args.me)>>]
  /\ UNCHANGED <<args, mainVars>>

CallCaldavPickScope ==
  /\ ret.caldav = <<>>
  /\ ret' = [ret EXCEPT !.caldav = <<caldav_pick_scope(args.env, args.me)>>]
  /\ UNCHANGED <<args, mainVars>>

NextScope == CallIcsPickScope \/ CallCommonPickScope \/ CallCaldavPickScope

SpecScope == InitScope /\ [][NextScope]_vars

(* ------------------------- untis_to_ics.main --------------------------- *)

NoEntry ==
  [text |-> <<>>, description |-> <<>>, due |-> <<>>, dueDate |-> <<>>,
   date |-> <<>>, subjectIds |-> <<>>, subjectId |-> <<>>, subject |-> <<>>]

DateValue(d) == [type |-> "date", date |-> d, str |-> <<>>]

StrValue(v) == [type |-> "str", date |-> NoDate, str |-> v]

\* an entry with a date object and a subject id: the homework of the note
\* "HA bis Freitag" of a Mathe lesson of the week
hw_freitag ==
  [NoEntry EXCEPT !.text = <<note_ha_freitag>>,
           !.due = <<DateValue(StartDay + 4)>>,
           !.subjectId = <<1>>]

\* an entry with a description, a date string and a subject name
hw_lesen ==
  [NoEntry EXCEPT !.description = <<note_lesen>>,
           !.dueDate = <<StrValue(<<"2","0","2","4","-","0","1","-","1","2">>)>>,
           !.subject = << <<"D","e">> >>]

\* what fetch_homeworks can return
HwLists ==
  { <<>>, <<hw_freitag>>, <<hw_lesen>>, <<hw_freitag, hw_freitag>>,
    <<hw_lesen, hw_freitag>> }

\* the seeds the interpreter can draw for the str hash
Seeds == {0, 1}

\* Event.__eq__ of the ics package compares the uids, or the objects
EventEqs == {"uid", "object"}

\* the state of main after fetch_timetable returned (line 217), cal and
\* seen_uids made (lines 219-220)
MainStarted ==
  /\ start = StartDay
  /\ lessons \in UNION {[1..n -> LessonPool] : n \in 0..MaxLessons}
  /\ hw_entries \in HwLists
  /\ hashseed \in Seeds
  /\ event_eq \in EventEqs
  /\ pc = "collect"
  /\ by_day = EmptyDict
  /\ seen_uids = {}
  /\ cal = <<>>
  /\ created_hw = {}
  /\ created_exam = {}
  /\ out_file = OldFile
  /\ run = 1
  /\ prev_uids = {}

Init == CallIdle /\ MainStarted

\* step 1, lines 223-234
CollectLessons ==
  /\ pc = "collect"
  /\ by_day' = CollectLoop(EmptyDict, lessons)
  /\ pc' = "blocks"
  /\ UNCHANGED <<callVars, start, lessons, hw_entries, hashseed, event_eq,
                 seen_uids, cal, created_hw, created_exam, out_file, run,
                 prev_uids>>

\* step 2, lines 237-250
BuildBlocks ==
  /\ pc = "blocks"
  /\ LET st == BlocksLoop([cal |-> cal, seen_uids |-> seen_uids], by_day,
                          Ascending(DOMAIN by_day), event_eq)
     IN  cal' = st.cal /\ seen_uids' = st.seen_uids
  /\ pc' = "module"
  /\ UNCHANGED <<callVars, start, lessons, hw_entries, hashseed, event_eq,
                 by_day, created_hw, created_exam, out_file, run, prev_uids>>

\* step 3a, lines 253-305
ModuleHomework ==
  /\ pc = "module"
  /\ cal' = ModuleLoop(cal, hw_entries, lessons, start, hashseed, event_eq)
  /\ pc' = "notes"
  /\ UNCHANGED <<callVars, start, lessons, hw_entries, hashseed, event_eq,
                 by_day, seen_uids, created_hw, created_exam, out_file, run,
                 prev_uids>>

\* step 3b, lines 308-348
ScanNotes ==
  /\ pc = "notes"
  /\ LET st == ScanLoop([cal |-> cal, created_hw |-> {}, created_exam |-> {}],
                        lessons, lessons, hashseed, event_eq)
     IN  /\ cal' = st.cal
         /\ created_hw' = st.created_hw
         /\ created_exam' = st.created_exam
  /\ pc' = "write"
  /\ UNCHANGED <<callVars, start, lessons, hw_entries, hashseed, event_eq,
                 by_day, seen_uids, out_file, run, prev_uids>>

\* step 4, lines 351-353: the file is opened for writing, which empties it,
\* and the lines of the calendar are written
WriteFile ==
  /\ pc = "write"
  /\ out_file' = [written_by |-> run, complete |-> TRUE]
  /\ pc' = "done"
  /\ UNCHANGED <<callVars, start, lessons, hw_entries, hashseed, event_eq,
                 by_day, seen_uids, cal, created_hw, created_exam, run,
                 prev_uids>>

\* step 4 when open() raises (OSError): the file is as it was
OpenFails ==
  /\ pc = "write"
  /\ pc' = "aborted"
  /\ UNCHANGED <<callVars, start, lessons, hw_entries, hashseed, event_eq,
                 by_day, seen_uids, cal, created_hw, created_exam, out_file,
                 run, prev_uids>>

\* step 4 when writelines raises (OSError of a write, or an exception of
\* serialize_iter): the file was emptied and holds the lines written so far
WriteFails ==
  /\ pc = "write"
  /\ out_file' = [written_by |-> run, complete |-> FALSE]
  /\ pc' = "aborted"
  /\ UNCHANGED <<callVars, start, lessons, hw_entries, hashseed, event_eq,
                 by_day, seen_uids, cal, created_hw, created_exam, run,
                 prev_uids>>

Next ==
  \/ CollectLessons
  \/ BuildBlocks
  \/ ModuleHomework
  \/ ScanNotes
  \/ WriteFile
  \/ OpenFails
  \/ WriteFails

Spec == Init /\ [][Next]_vars

\* A second run of the script on the same timetable, homework entries and
\* configuration: a new process, whose interpreter draws its own hash seed
\* (lines 356-357, and main from line 203 again).  prev_uids keeps the uids of
\* the events of the first run.
Rerun ==
  /\ pc = "done"
  /\ run = 1
  /\ prev_uids' = {cal[k].uid : k \in 1..Len(cal)}
  /\ hashseed' \in Seeds
  /\ run' = run + 1
  /\ pc' = "collect"
  /\ by_day' = EmptyDict
  /\ seen_uids' = {}
  /\ cal' = <<>>
  /\ created_hw' = {}
  /\ created_exam' = {}
  /\ UNCHANGED <<callVars, start, lessons, hw_entries, event_eq, out_file>>

NextRerun == Next \/ Rerun

SpecRerun == Init /\ [][NextRerun]_vars

(* ------------------ untis_common.py: normalize_lessons ----------------- *)

\* str.upper() on one character
UpperChar(c) ==
  IF \E k \in 1..Len(LowerChars) : LowerChars[k] = c
  THEN UpperChars[CHOOSE k \in 1..Len(LowerChars) : LowerChars[k] = c]
  ELSE c

\* str.upper()
Upper(s) == [k \in 1..Len(s) |-> UpperChar(s[k])]

\* the characters of the texts in the order of their code points
CodePoints ==
  <<"\t", "\n", " ", "-", ".", ":">> \o Digits
    \o SubSeq(UpperChars, 1, 26) \o SubSeq(LowerChars, 1, 26) \o <<"Ü", "ü">>

Ord(c) == CHOOSE k \in 1..Len(CodePoints) : CodePoints[k] = c

\* a < b of two str
RECURSIVE StrLess(_, _)
StrLess(a, b) ==
  IF b = <<>> THEN FALSE
  ELSE IF a = <<>> THEN TRUE
  ELSE IF a[1] # b[1] THEN Ord(a[1]) < Ord(b[1])
  ELSE StrLess(Tail(a), Tail(b))

kw_Unterricht == <<"U","n","t","e","r","r","i","c","h","t">>

kw_Code == <<"C","o","d","e",":"," ">>

kw_Hinweis == <<"H","i","n","w","e","i","s",":"," ">>

\* raise ValueError(...) of extract_lesson_details, passed on by the list
\* comprehension of normalize_lessons
ValueError == [raised |-> TRUE, value |-> <<>>]

Value(v) == [raised |-> FALSE, value |-> v]

\* untis_common.extract_lesson_details, for a lesson that has no rooms and no
\* teachers attribute
extract_lesson_details(lesson) ==
  IF lesson.start = NoTime \/ lesson.end = NoTime THEN ValueError
  ELSE LET named == IF lesson.subject = <<>> THEN <<>>
                    ELSE NameOf(lesson.subject[1])
           code  == IF lesson.code = <<>> THEN <<>> ELSE lesson.code[1]
           subst == IF lesson.substText = <<>> THEN <<>>
                    ELSE lesson.substText[1]
       IN  Value([begin    |-> lesson.start,
                  end      |-> lesson.end,
                  subject  |-> IF named = <<>> THEN kw_Unterricht ELSE named[1],
                  room     |-> <<>>,
                  teachers |-> <<>>,
                  notes    |-> (IF code # <<>> THEN <<kw_Code \o code>>
                                ELSE <<>>)
                                 \o (IF subst # <<>> THEN <<kw_Hinweis \o subst>>
                                     ELSE <<>>),
                  cancelled |-> \/ lesson.is_cancelled
                                \/ Upper(code) \in {Upper(kw_cancelled),
                                                    Upper(kw_canc)}])

\* the list comprehension of line 187: the details of the lessons, or the
\* exception of the first lesson that raises
RECURSIVE DetailsOf(_)
DetailsOf(rest) ==
  IF rest = <<>> THEN Value(<<>>)
  ELSE LET first == extract_lesson_details(rest[1]) IN
       IF first.raised THEN ValueError
       ELSE LET others == DetailsOf(Tail(rest)) IN
            IF others.raised THEN ValueError
            ELSE Value(<<first.value>> \o others.value)

\* (d["begin"], d["end"], d["subject"], d["room"]) of a < that of b
KeyLess(a, b) ==
  \/ a.begin < b.begin
  \/ /\ a.begin = b.begin
     /\ \/ a.end < b.end
        \/ /\ a.end = b.end
           /\ \/ StrLess(a.subject, b.subject)
              \/ /\ a.subject = b.subject
                 /\ StrLess(a.room, b.room)

\* details.sort(key=...): the sort is stable
RECURSIVE InsertByKey(_, _)
InsertByKey(sorted, d) ==
  IF sorted = <<>> THEN <<d>>
  ELSE IF KeyLess(d, sorted[1]) THEN <<d>> \o sorted
  ELSE <<sorted[1]>> \o InsertByKey(Tail(sorted), d)

RECURSIVE SortedByKey(_)
SortedByKey(details) ==
  IF details = <<>> THEN <<>>
  ELSE InsertByKey(SortedByKey(SubSeq(details, 1, Len(details) - 1)),
                   details[Len(details)])

\* untis_common.normalize_lessons
normalize_lessons(rest) ==
  LET details == DetailsOf(rest) IN
  IF details.raised THEN ValueError
  ELSE Value(SortedByKey(details.value))

\* the lists of lessons a timetable can be
Timetables == UNION {[1..n -> LessonPool] : n \in 0..MaxLessons}

InitNormalize ==
  /\ args \in [lessons : Timetables]
  /\ ret = <<>>
  /\ MainIdle

CallNormalizeLessons ==
  /\ ret = <<>>
  /\ ret' = <<normalize_lessons(args.lessons)>>
  /\ UNCHANGED <<args, mainVars>>

NextNormalize == CallNormalizeLessons

SpecNormalize == InitNormalize /\ [][NextNormalize]_vars

(* ======================================================================= *)
(*                               Claims                                    *)
(* ======================================================================= *)

\* the first date strictly after base_day that falls on weekday w (0 = Monday)
NextOn(w, base_day) ==
  CHOOSE d \in (base_day + 1)..(base_day + 7) : Weekday(d) = w

\* the text names a weekday and has neither "heute" nor "morgen" in it
WeekdayRuleApplies ==
  LET t == Lower(args.text) IN
  /\ NamedWeekdays(t) # {}
  /\ ~Contains(t, kw_heute)
  /\ ~Contains(t, kw_morgen)

\* the weekday name the rule takes: the first of WEEKDAYS_DE the text contains
FirstNamedWeekday ==
  LET named == NamedWeekdays(Lower(args.text)) IN
  CHOOSE k \in named : \A j \in named : k <= j

\* C9 as stated: for a text that contains a weekday name (and neither "heute"
\* nor "morgen"), parse_due_date returns the next date with that weekday
\* strictly after base_day, for every weekday name the text contains: between
\* base_day + 1 and base_day + 7, and base_day + 7 when the named weekday is
\* base_day's own.
C9_AnyNamedWeekday ==
  (ret # <<>> /\ WeekdayRuleApplies) =>
    \A k \in NamedWeekdays(Lower(args.text)) :
      /\ ret[1] = NextOn(k - 1, args.base_day)
      /\ ret[1] \in (args.base_day + 1)..(args.base_day + 7)
      /\ (k - 1 = Weekday(args.base_day) => ret[1] = args.base_day + 7)

\* C9 amended: the weekday is the first one, in the order Monday to Sunday,
\* whose name the text contains; parse_due_date returns the next date with that
\* weekday strictly after base_day: between base_day + 1 and base_day + 7, and
\* base_day + 7 (never base_day) when that weekday is base_day's own.
C9_NextWeekday ==
  (ret # <<>> /\ WeekdayRuleApplies) =>
    /\ ret[1] = NextOn(FirstNamedWeekday - 1, args.base_day)
    /\ ret[1] \in (args.base_day + 1)..(args.base_day + 7)
    /\ (FirstNamedWeekday - 1 = Weekday(args.base_day)
          => ret[1] = args.base_day + 7)

\* C9 witness: the text names base_day's own weekday and the call returned
\* the date seven days later
C9_Witness ==
  /\ ret # <<>>
  /\ WeekdayRuleApplies
  /\ FirstNamedWeekday - 1 = Weekday(args.base_day)
  /\ ret[1] = args.base_day + 7

\* the only date signal of the text is a day.month pattern without a year
DayMonthOnly ==
  LET t == Lower(args.text) IN
  /\ DATE_DDMM(t) # <<>>
  /\ DATE_DDMMYYYY(t) = <<>>
  /\ NamedWeekdays(t) = {}
  /\ ~Contains(t, kw_heute)
  /\ ~Contains(t, kw_morgen)

\* the (leftmost) day.month of the text, in year y; NoDate if there is no such date
DayMonthIn(y) ==
  LET m == DATE_DDMM(Lower(args.text)) IN MkDate(y, m[2], m[1])

\* the day.month of the text is a day of the calendar (29.2. included)
DayMonthExists ==
  LET m == DATE_DDMM(Lower(args.text)) IN
  /\ m[2] \in 1..12
  /\ m[1] >= 1
  /\ m[1] <= (IF m[2] = 2 THEN 29 ELSE DaysInMonth(1, m[2]))

\* C10 as stated: a text whose only date signal is a day.month pattern gives
\* that day and month in base_day's year, unless that is strictly before
\* base_day, and then in the following year; a date is returned and it is
\* never before base_day.
C10_AlwaysADate ==
  (ret # <<>> /\ DayMonthOnly /\ DayMonthExists) =>
    LET y    == YearOf(args.base_day)
        this == DayMonthIn(y)
    IN  /\ ret[1] # NoDate
        /\ ret[1] >= args.base_day
        /\ ret[1] = (IF this # NoDate /\ this >= args.base_day
                     THEN this ELSE DayMonthIn(y + 1))

\* C10 amended: when the day.month is a valid date of base_day's year, the
\* result is that date if it is not before base_day, and otherwise the same
\* day and month of the following year if that is a valid date; in every other
\* case (the day.month is no date of base_day's year, or it is before base_day
\* and no date of the following year: 29.2.) there is no due date.  A returned
\* date is never before base_day.
C10_DayMonth ==
  (ret # <<>> /\ DayMonthOnly) =>
    LET y    == YearOf(args.base_day)
        this == DayMonthIn(y)
    IN  /\ ret[1] = (IF this = NoDate THEN NoDate
                     ELSE IF this >= args.base_day THEN this
                     ELSE DayMonthIn(y + 1))
        /\ (ret[1] # NoDate => ret[1] >= args.base_day)

\* C10 witness: base_day is the 20th of December and "3.1." gave the 3rd of
\* January of the next year
C10_Witness ==
  /\ ret # <<>>
  /\ DayMonthOnly
  /\ args.base_day = MkDate(2023, 12, 20)
  /\ DATE_DDMM(Lower(args.text)) = <<3, 1>>
  /\ ret[1] = MkDate(2024, 1, 3)

\* the list of blocks is ordered by begin, its blocks do not overlap, and
\* consecutive blocks are more than the threshold apart
BlocksSeparated(blocks, gap) ==
  \A k \in 1..(Len(blocks) - 1) :
    /\ blocks[k][1] < blocks[k + 1][1]
    /\ blocks[k][2] <= blocks[k + 1][1]
    /\ blocks[k + 1][1] - blocks[k][2] > gap

\* two intervals, the second beginning at or after the end of the first: one
\* block when the gap is the threshold, two when it is one minute more
BoundaryInclusive(intervals, blocks, gap) ==
  (Len(intervals) = 2 /\ intervals[1][2] <= intervals[2][1]) =>
    /\ (intervals[2][1] - intervals[1][2] = gap
          => blocks = << <<intervals[1][1], intervals[2][2]>> >>)
    /\ (intervals[2][1] - intervals[1][2] = gap + 1 => blocks = intervals)

\* C6 as stated: for every list of intervals and every threshold, the blocks
\* are ordered by begin, do not overlap and are more than the threshold
\* apart; a gap equal to the threshold merges, a gap one minute larger does not.
C6_EveryThreshold ==
  ret # <<>> =>
    /\ BlocksSeparated(ret[1], args.max_gap_min)
    /\ BoundaryInclusive(args.intervals, ret[1], args.max_gap_min)

\* C6 amended: the same for every threshold that is not negative (with a
\* negative threshold two overlapping intervals stay two overlapping blocks).
C6_Blocks ==
  (ret # <<>> /\ args.max_gap_min >= 0) =>
    /\ BlocksSeparated(ret[1], args.max_gap_min)
    /\ BoundaryInclusive(args.intervals, ret[1], args.max_gap_min)

\* C6 witness: two intervals whose gap is exactly the threshold became one block
C6_Witness ==
  /\ ret # <<>>
  /\ args.max_gap_min >= 1
  /\ Len(args.intervals) = 2
  /\ args.intervals[2][1] - args.intervals[1][2] = args.max_gap_min
  /\ ret[1] = << <<args.intervals[1][1], args.intervals[2][2]>> >>

\* C7: merging the merged blocks again with the same threshold yields the
\* same blocks.
C7_Idempotent == Len(ret) = 2 => ret[2] = ret[1]

\* C7 witness: a call that merged some intervals and kept two blocks apart,
\* merged again
C7_Witness ==
  /\ Len(ret) = 2
  /\ Len(ret[1]) = 2
  /\ Len(args.intervals) = 3
  /\ ret[2] = ret[1]

\* some explicit identifier is configured
ExplicitConfigured ==
  IsSet(args.env.sid) \/ IsSet(args.env.tid) \/ IsSet(args.env.cid)

\* the scope of the explicit identifiers, stated on the configuration alone:
\* the student, else the teacher, else the class
ConfiguredScope ==
  IF IsSet(args.env.sid) THEN << <<"studentId", IntOf(args.env.sid[1])>> >>
  ELSE IF IsSet(args.env.tid) THEN << <<"teacherId", IntOf(args.env.tid[1])>> >>
  ELSE << <<"classId", IntOf(args.env.cid[1])>> >>

\* C3: in each of the three pick_scope implementations, whenever an explicit
\* identifier is configured the call returns the scope built from it, also
\* when get_current_user succeeds and reports a personType and personId.
C3_ExplicitFirst ==
  \A impl \in {"ics", "common", "caldav"} :
    (ret[impl] # <<>> /\ ExplicitConfigured) =>
      ret[impl][1] = [raised |-> FALSE, scope |-> ConfiguredScope]

\* the part of C3 that holds: untis_to_ics.pick_scope alone
C3_IcsExplicitFirst ==
  (ret.ics # <<>> /\ ExplicitConfigured) =>
    ret.ics[1] = [raised |-> FALSE, scope |-> ConfiguredScope]

\* a lesson with both times, as the loops of main require (lines 228-229)
Resolved(l) == l.start # NoTime /\ l.end # NoTime

\* the lesson is cancelled: by the flag, or by a cancellation status code
Cancelled(l) ==
  \/ l.is_cancelled
  \/ /\ l.code # <<>>
     /\ Lower(l.code[1]) \in {kw_cancelled, kw_canc, kw_absent}

\* the intervals of the taught lessons of a day, in the order of the timetable
TaughtOn(day) ==
  LET taught == SelectSeq(lessons,
                  LAMBDA l : /\ Resolved(l)
                             /\ ~Cancelled(l)
                             /\ DateOfTime(l.start) = day)
  IN  [k \in 1..Len(taught) |-> <<taught[k].start, taught[k].end>>]

TaughtDays ==
  {DateOfTime(lessons[k].start) : k \in
     {j \in 1..Len(lessons) : Resolved(lessons[j]) /\ ~Cancelled(lessons[j])}}

\* the cancelled lessons that no taught lesson overlaps
CancelledPeriods ==
  {<<lessons[k].start, lessons[k].end>> : k \in
     {j \in 1..Len(lessons) :
        /\ Resolved(lessons[j])
        /\ Cancelled(lessons[j])
        /\ \A t \in 1..Len(lessons) :
             Resolved(lessons[t]) /\ ~Cancelled(lessons[t])
               => \/ lessons[t].end <= lessons[j].start
                  \/ lessons[j].end <= lessons[t].start}}

\* the thresholds below the 45 minutes of a lesson
Thresholds == 0..44

\* no block of the list spans a cancelled period that is longer than the
\* threshold
NoneSpans(blocks, gap, periods) ==
  \A c \in periods :
    gap < c[2] - c[1]
      => \A k \in 1..Len(blocks) :
           ~(blocks[k][1] <= c[1] /\ c[2] <= blocks[k][2])

\* C8: cancelled lessons never contribute to the attendance blocks.  After
\* step 1 by_day holds, per day, the intervals of the taught lessons and of
\* no cancelled one; merged with any threshold below 45 minutes no block spans
\* a cancelled period no taught lesson overlaps; and after step 2 no "Schule"
\* event of the calendar spans one.
C8_CancelledKeptOut ==
  /\ pc = "blocks"
       => /\ DOMAIN by_day = TaughtDays
          /\ \A d \in DOMAIN by_day : by_day[d] = TaughtOn(d)
          /\ LET periods == CancelledPeriods IN
             \A d \in {DateOfTime(c[1]) : c \in periods} \cap DOMAIN by_day :
               \A g \in Thresholds :
                 NoneSpans(merge_into_blocks(by_day[d], g), g, periods)
  /\ pc = "module"
       => NoneSpans([k \in 1..Len(cal) |-> <<cal[k].begin, cal[k].end>>],
                    MERGE_GAP_MIN, CancelledPeriods)

\* taught 9:00-9:45, cancelled 9:45-10:30, taught 10:30-11:15: two blocks
C8_Witness ==
  /\ pc = "module"
  /\ Len(lessons) = 3
  /\ lessons[1].start = Combine(StartDay, 540)
  /\ lessons[1].end = Combine(StartDay, 585)
  /\ ~Cancelled(lessons[1])
  /\ lessons[2].start = Combine(StartDay, 585)
  /\ lessons[2].end = Combine(StartDay, 630)
  /\ Cancelled(lessons[2])
  /\ lessons[3].start = Combine(StartDay, 630)
  /\ lessons[3].end = Combine(StartDay, 675)
  /\ ~Cancelled(lessons[3])
  /\ cal = <<BlockEvent(Combine(StartDay, 540), Combine(StartDay, 585)),
             BlockEvent(Combine(StartDay, 630), Combine(StartDay, 675))>>

\* C1: the due date of a homework event made from a note is never fabricated:
\* every homework key of the note scan has the date parse_due_date returns for
\* a note of a lesson with that subject and that text.
C1_DueParsed ==
  \A key \in created_hw :
    \E k \in 1..Len(lessons) :
      /\ lessons[k].start # NoTime
      /\ Notes[lessons[k]].homework
      /\ Notes[lessons[k]].subject = key[2]
      /\ Notes[lessons[k]].info = key[3]
      /\ Notes[lessons[k]].parsed # NoDate
      /\ Notes[lessons[k]].parsed = key[1]

\* C2: the second run, on the same input, yields the set of uids of the first.
C2_SameUids ==
  (run = 2 /\ pc = "done")
    => {cal[k].uid : k \in 1..Len(cal)} = prev_uids

C5_AbortLeavesFile ==
  pc = "aborted" => out_file = OldFile

\* the lessons of the list with both times, in the order of the list
ResolvedOf(batch) == SelectSeq(batch, LAMBDA l : Resolved(l))

\* C11: a record without begin or end is skipped and never an error:
\* normalize_lessons raises nothing and returns the details of exactly the
\* other lessons of the batch.
C11_SkippedNotError ==
  ret # <<>>
    => /\ ~ret[1].raised
       /\ Len(ret[1].value) = Len(ResolvedOf(args.lessons))
       /\ \A k \in 1..Len(args.lessons) :
            Resolved(args.lessons[k])
              => \E j \in 1..Len(ret[1].value) :
                   /\ ret[1].value[j].begin = args.lessons[k].start
                   /\ ret[1].value[j].end = args.lessons[k].end

\* the exam events of the calendar
ExamEvents == {k \in 1..Len(cal) : cal[k].name = "Pruefung"}

\* C12: the calendar holds at most one exam event per (dueDate, subjectName)
\* pair, and after the note scan exactly one per pair of created_exam.
C12_OneExamPerPair ==
  /\ \A i, j \in ExamEvents :
       i # j => <<cal[i].begin, cal[i].subject>> # <<cal[j].begin, cal[j].subject>>
  /\ pc = "write"
       => {<<cal[k].begin, cal[k].subject>> : k \in ExamEvents}
            = {<<Combine(key[1], EXAM_TIME), key[2]>> : key \in created_exam}

\* two lessons with different exam notes of one subject that resolve to one
\* day, and one exam event
C12_Witness ==
  /\ pc = "write"
  /\ Cardinality(ExamEvents) = 1
  /\ \E i, j \in 1..Len(lessons) :
       /\ i # j
       /\ lessons[i].start # NoTime
       /\ lessons[j].start # NoTime
       /\ Notes[lessons[i]].exam
       /\ Notes[lessons[j]].exam
       /\ Notes[lessons[i]].info # Notes[lessons[j]].info
       /\ Notes[lessons[i]].subject = Notes[lessons[j]].subject
       /\ ExamDue(Notes[lessons[i]]) = ExamDue(Notes[lessons[j]])

\* the places of the text where a run of digits and dots begins
DateTokens(t) ==
  {k \in 1..Len(t) :
     /\ IsDigit(t[k]) \/ t[k] = "."
     /\ k = 1 \/ ~(IsDigit(t[k - 1]) \/ t[k - 1] = ".")}

\* the only date-like token of the text is a day.month.year that is no day of
\* the calendar, and the text has no "heute", no "morgen" and no weekday name
InvalidFullDateOnly ==
  LET t == Lower(args.text) IN
  /\ Cardinality(DateTokens(t)) = 1
  /\ DATE_DDMMYYYY(t) # <<>>
  /\ DateOfDDMMYYYY(DATE_DDMMYYYY(t)) = NoDate
  /\ NamedWeekdays(t) = {}
  /\ ~Contains(t, kw_heute)
  /\ ~Contains(t, kw_morgen)

\* C13: a day.month.year that fails the calendar validation is no match:
\* parse_due_date returns no due date for a text whose only date-like token it
\* is.
C13_InvalidIsNoMatch ==
  (ret # <<>> /\ InvalidFullDateOnly) => ret[1] = NoDate

\* the dates of the day.month.year patterns of the text that are days of the
\* calendar
ValidFullDates(t) ==
  {MkDate(IntOf(SubSeq(t, h[1] + h[2] + h[3] + 2, h[1] + h[2] + h[3] + 5)),
          IntOf(SubSeq(t, h[1] + h[2] + 1, h[1] + h[2] + h[3])),
          IntOf(SubSeq(t, h[1], h[1] + h[2] - 1))) :
     h \in {g \in (1..Len(t)) \X (1..2) \X (1..2) :
              MatchDDMMYYYY(t, g[1], g[2], g[3])}} \ {NoDate}

\* C14: the rules are applied in the order today, tomorrow, weekday name,
\* day.month.year, day.month, and the result is the date of the first rule the
\* text matches, wherever its tokens stand: the day.month rule decides only
\* for a text with no "heute", no "morgen", no weekday name and no
\* day.month.year date.
C14_HighestRuleWins ==
  (ret # <<>> /\ args.text # <<>>) =>
    LET t == Lower(args.text) IN
    IF Contains(t, kw_heute) THEN ret[1] = args.base_day
    ELSE IF Contains(t, kw_morgen) THEN ret[1] = args.base_day + 1
    ELSE IF NamedWeekdays(t) # {}
      THEN ret[1] = NextOn(FirstNamedWeekday - 1, args.base_day)
    ELSE IF ValidFullDates(t) # {} THEN ret[1] \in ValidFullDates(t)
    ELSE ret[1] # NoDate => DATE_DDMM(t) # <<>>

\* the blocks that contain the interval
BlocksAround(blocks, iv) ==
  {j \in 1..Len(blocks) : blocks[j][1] <= iv[1] /\ iv[2] <= blocks[j][2]}

\* C15: for a list of intervals that is not empty and a threshold that is not
\* negative, every interval lies in exactly one block of merge_into_blocks,
\* every block begins where some interval begins and ends where some interval
\* ends.
C15_Coverage ==
  (ret # <<>> /\ args.intervals # <<>> /\ args.max_gap_min >= 0) =>
    /\ \A k \in 1..Len(args.intervals) :
         Cardinality(BlocksAround(ret[1], args.intervals[k])) = 1
    /\ \A j \in 1..Len(ret[1]) :
         /\ \E k \in 1..Len(args.intervals) :
              args.intervals[k][1] = ret[1][j][1]
         /\ \E k \in 1..Len(args.intervals) :
              args.intervals[k][2] = ret[1][j][2]

\* C15 witness: three intervals, one of them inside another, in one block
\* that is longer than each of the intervals
C15_Witness ==
  /\ Len(ret) = 1
  /\ args.max_gap_min >= 0
  /\ Len(args.intervals) = 3
  /\ Len(ret[1]) = 1
  /\ \E i, k \in 1..3 :
       /\ i # k
       /\ args.intervals[i][1] <= args.intervals[k][1]
       /\ args.intervals[k][2] < args.intervals[i][2]
  /\ \A k \in 1..3 : ret[1][1] # args.intervals[k]

====
